---------------------------- MODULE Spec2Model ----------------------------
(***************************************************************************)
(* Trade lifecycle of the trading bot: TradeExecutor (trade_executor.py)   *)
(* with its admission check, the venue calls it awaits, and the Capital &  *)
(* Metrics Tracker (RiskManagementSystem, risk_manager.py) it reports to.  *)
(*                                                                         *)
(* Units.  Time is counted in whole hours.  Money is counted in whole      *)
(* units of the quote currency; position_size_percent is carried in basis  *)
(* points (0.01 = 100 bp), so position_size = percent * balance is carried *)
(* as the integer percent_bp * balance and the quantity                    *)
(* position_size / current_price as the exact fraction [num, den].         *)
(*                                                                         *)
(* execute_trade is a coroutine: it is modelled as one action per stretch  *)
(* of code between two awaits, with pc naming the await it is suspended at.*)
(*                                                                         *)
(* The name datetime.  trade_executor.py uses datetime.now() at lines 191  *)
(* and 235 and imports only os, asyncio, logging, ccxt and typing (lines   *)
(* 3-7): as shipped, both lines raise NameError, which execute_trade       *)
(* catches at line 142.  Whether the name resolves is a fact about the     *)
(* module namespace at run time; it is carried as has_datetime and fixed   *)
(* at start.  has_datetime = FALSE is the module as shipped.               *)
(* has_datetime = TRUE is the same code run with the name bound in the     *)
(* module namespace; it is the only way any trade is ever Open, and so the *)
(* only place where the admission and expiry rules can be observed.        *)
(*                                                                         *)
(* The bot itself (QuantumTradeBot, main.py) runs two tasks on one event   *)
(* loop: the trading loop, which asks the signal generator                 *)
(* (trade_strategy.py) for a signal per symbol and hands the executable    *)
(* ones to execute_trade, and the health monitor.  Each task is a record   *)
(* (loop, monitor) whose pc names the await it is suspended at; the        *)
(* handler of SIGINT and SIGTERM is one more action.  The collaborators    *)
(* the tasks await (market data, models, venue, database) are inputs:      *)
(* each answer, a failure included, is chosen from a small set.            *)
(*                                                                         *)
(* assess_trade_risk and calculate_position_size (risk_manager.py) are     *)
(* functions of their arguments and of two fields of the tracker.  They    *)
(* are operators over exact fractions [num, den] kept in lowest terms,     *)
(* and each is applied once, to arguments chosen at start, with the call   *)
(* and its result kept in fn.  detect_market_regime                        *)
(* (market_data_manager.py), _process_prediction and                       *)
(* generate_trading_signal (trade_strategy.py) are treated the same way.   *)
(*                                                                         *)
(* The process: main() constructs the bot and runs it; process holds how   *)
(* far it got, what the shutdown path logged, the exception that ended it  *)
(* and its exit status.                                                    *)
(***************************************************************************)
EXTENDS Integers, Sequences, FiniteSets, TLC

(***************************************************************************)
(* Program constants                                                       *)
(***************************************************************************)
\* config.py:19
SYMBOLS == {"BTC/EUR", "ETH/EUR", "SOL/EUR"}

\* config.py:23
INITIAL_CAPITAL == 10000

\* trade_executor.py:35
max_open_trades == 3

\* trade_executor.py:36
max_trade_duration_hours == 24

(***************************************************************************)
(* Exact rationals: the fractional amounts of the program (risk scores,    *)
(* percentages, position sizes) are carried as reduced fractions           *)
(* [num, den] with den > 0, so that two equal amounts are equal records.   *)
(***************************************************************************)
Abs(x) == IF x < 0 THEN -x ELSE x

RECURSIVE Gcd(_, _)
Gcd(a, b) == IF b = 0 THEN a ELSE Gcd(b, a % b)

\* n / d, d # 0
Frac(n, d) ==
    LET g == Gcd(Abs(n), Abs(d))
        sgn == IF d < 0 THEN -1 ELSE 1
    IN [num |-> sgn * (Abs(n) \div g) * (IF n < 0 THEN -1 ELSE 1),
        den |-> Abs(d) \div g]

FracLt(a, b) == a.num * b.den < b.num * a.den

FracLe(a, b) == a.num * b.den <= b.num * a.den

\* Python's min(a, b) and max(a, b): the first argument on a tie
FracMin(a, b) == IF FracLt(b, a) THEN b ELSE a

FracMax(a, b) == IF FracLt(a, b) THEN b ELSE a

FracMul(a, b) == Frac(a.num * b.num, a.den * b.den)

\* config.py:24
MAX_RISK_PER_TRADE == Frac(1, 100)

\* risk_manager.py:106: the threshold of the executable verdict
EXECUTABLE_BELOW == Frac(6, 10)

\* risk_manager.py:109: the floor of position_size_percent
MIN_POSITION_SIZE_PERCENT == Frac(1, 100)

(***************************************************************************)
(* Bounds of the model                                                     *)
(***************************************************************************)
\* hours that pass in one step of the clock
TickHours == 24

\* the clock stops here
MaxTime == 48

\* orders the venue acknowledges in one run
MaxOrders == 3

\* trades handed to the tracker in one run of the tracker specification
MaxRecorded == 3

(***************************************************************************)
(* Inputs                                                                  *)
(***************************************************************************)
\* a symbol that is not configured: execute_trade takes the symbol from the
\* signal it is given, whatever it is
OtherSymbols == {"XRP/EUR"}

AllSymbols == SYMBOLS \cup OtherSymbols

\* raw directions of a signal
Signals == {-1, 0, 1}

\* position_size_percent in basis points, as assess_trade_risk returns it
PositionSizePercents == {100}

\* 'last' of a ticker; 0 makes the quantity division fail
Prices == {0, 100}

\* 'last' of a ticker while the bot runs its loops
LoopPrices == {100}

\* free quote balance the venue reports
Balances == {1000}

\* profit_loss values of the trades given to the tracker
ProfitLosses == {-200, 0, 150, 300}

\* what _initialize_exchanges can leave behind: an exchange for every
\* configured symbol, or none for a symbol whose API keys did not decrypt
ExchangeSets == {SYMBOLS, SYMBOLS \ {"SOL/EUR"}}

TradeSignals ==
    [symbol : AllSymbols, signal : Signals,
     executable : BOOLEAN, position_size_percent : PositionSizePercents]

\* trade_signal given to assess_trade_risk, in tenths: the class mapping
\* -1, 0, 1 times the regime adjustment 1.2, 0.8, 0.5 or 1.0
\* (trade_strategy.py:140-153)
SignalTenths == {-12, -5, 0, 8, 12}

\* volatility in tenths: the mean bb_width of the 1h and 4h frames, a
\* percentage of the close (market_data_manager.py:139, 192-197)
Volatilities == {0, 5, 34, 80}

\* trend_strength in tenths: abs(avg_trend - 50) / 50 with an RSI in
\* [0, 100] (market_data_manager.py:224)
TrendStrengths == {0, 5, 10}

\* trade_signal as assess_trade_risk receives it: a number, or a value
\* abs() cannot take (None)
AssessSignals ==
    [numeric : {TRUE}, tenths : SignalTenths]
       \cup {[numeric |-> FALSE, tenths |-> 0]}

\* market_conditions: a dict that may lack either key
MarketConditions ==
    [volatility : Volatilities, trend_strength : TrendStrengths]
       \cup [volatility : Volatilities]
       \cup [trend_strength : TrendStrengths]

\* max_risk_per_trade values a configuration can give
MaxRisks == {Frac(5, 1000), MAX_RISK_PER_TRADE, Frac(2, 100)}

\* arguments and state of calculate_position_size
EntryPrices == {0, 50, 100}

StopLossPrices == {49, 98, 99, 100, 102}

Capitals == {-1000, 5000, INITIAL_CAPITAL}

VARIABLES
    has_datetime,     \* whether the name datetime resolves in trade_executor
    exchanges,        \* TradeExecutor.exchanges: the symbols with an exchange
    active_trades,    \* TradeExecutor.active_trades: symbol -> TradeRecord
    current_capital,  \* RiskManagementSystem.current_capital
    trade_history,    \* RiskManagementSystem.trade_history
    venue_orders,     \* market orders the venue has acknowledged
    now,              \* the wall clock, in hours
    pc,               \* where execute_trade is: idle, ticker, balance, order, done
    call,             \* the execute_trade call in progress (or just returned)
    pending,          \* tracker specification: the closed trades to record
    recorded,         \* tracker specification: the indices of those recorded
    fn,               \* function specifications: the arguments and the result
    loop,             \* QuantumTradeBot._trading_loop: its position
    monitor,          \* QuantumTradeBot._monitor_system_health: position
    risk_metrics,     \* RiskManagementSystem.risk_metrics
    process           \* the operating-system process: main() and its exit

vars == <<has_datetime, exchanges, active_trades, current_capital,
          trade_history, venue_orders, now, pc, call, pending, recorded,
          fn, loop, monitor, risk_metrics, process>>

(***************************************************************************)
(* RiskManagementSystem                                                    *)
(***************************************************************************)
\* risk_manager.py:29-37 (sharpe_ratio and sortino_ratio, floating-point
\* statistics that nothing reads, are left out)
InitialRiskMetrics ==
    [total_trades |-> 0, winning_trades |-> 0, losing_trades |-> 0,
     max_drawdown |-> 0, max_drawdown_percent |-> Frac(0, 1)]

\* risk_manager.py:142: the profit_loss of every trade of the history
profits_of(history) == [k \in DOMAIN history |-> history[k].profit_loss]

\* sum(1 for p in profits if cond)
CountIn(profits, matching) ==
    Cardinality({k \in DOMAIN profits : profits[k] \in matching})

\* min(profits), profits not empty
MinOf(profits) ==
    CHOOSE m \in {profits[k] : k \in DOMAIN profits} :
        \A k \in DOMAIN profits : m <= profits[k]

\* mutation: a trade with profit_loss 0 is not counted as a losing trade
update_risk_metrics_StrictLoss(history, metrics) ==
    IF history = <<>>
    THEN metrics
    ELSE LET profits == profits_of(history)
         IN [metrics EXCEPT
               !.total_trades = Len(history),
               !.winning_trades = CountIn(profits, {p \in Int : p > 0}),
               !.losing_trades = CountIn(profits, {p \in Int : p < 0}),
               !.max_drawdown = MinOf(profits),
               !.max_drawdown_percent =
                   Frac(MinOf(profits) * 100, INITIAL_CAPITAL)]

\* risk_manager.py:136-160, every trade of the history carrying a numeric
\* profit_loss
update_risk_metrics(history, metrics) ==
    IF history = <<>>
    THEN metrics
    ELSE LET profits == profits_of(history)
         IN [metrics EXCEPT
               !.total_trades = Len(history),
               !.winning_trades = CountIn(profits, {p \in Int : p > 0}),
               !.losing_trades = CountIn(profits, {p \in Int : p <= 0}),
               !.max_drawdown = MinOf(profits),
               !.max_drawdown_percent =
                   Frac(MinOf(profits) * 100, INITIAL_CAPITAL)]

\* mutation: the update fails before the trade is appended, and the
\* handler of line 133 logs it
update_capital_and_metrics_NoAppend(capital, history, metrics, trade_result) ==
    [current_capital |-> capital,
     trade_history   |-> history,
     risk_metrics    |-> metrics]

\* mutation: the trade is appended but the capital is not updated
update_capital_and_metrics_NoAdd(capital, history, metrics, trade_result) ==
    [current_capital |-> capital,
     trade_history   |-> Append(history, trade_result),
     risk_metrics    |-> update_risk_metrics(Append(history, trade_result),
                                             metrics)]

\* risk_manager.py:116-134.  profit_loss is numeric here, so neither the
\* addition nor _update_risk_metrics raises.
update_capital_and_metrics(capital, history, metrics, trade_result) ==
    [current_capital |-> capital + trade_result.profit_loss,
     trade_history   |-> Append(history, trade_result),
     risk_metrics    |-> update_risk_metrics(Append(history, trade_result),
                                             metrics)]

\* dict.get(key, default)
dict_get(d, key, default) == IF key \in DOMAIN d THEN d[key] ELSE default

\* risk_manager.py:83-88: the assessment before the evaluation
default_risk_assessment ==
    [executable |-> FALSE, risk_score |-> Frac(0, 1),
     position_size_percent |-> Frac(0, 1), recommended_stop_loss |-> 0]

\* risk_manager.py:96: abs(trade_signal) raises TypeError on a value that
\* is not a number; the handler at 111-112 logs it
assess_trade_risk_raises(trade_signal) == ~trade_signal.numeric

\* risk_manager.py:102: np.mean of the three components, with the signal,
\* the volatility and the trend strength in tenths
risk_score_of(signal10, volatility10, trend10) ==
    Frac(4 * Abs(signal10) + 3 * volatility10 + 3 * (10 - trend10), 300)

\* mutation: the floor is not applied
assess_trade_risk_NoFloor(trade_signal, market_conditions, max_risk) ==
    IF assess_trade_risk_raises(trade_signal)
    THEN default_risk_assessment
    ELSE LET volatility == dict_get(market_conditions, "volatility", 5)
             trend_strength == dict_get(market_conditions, "trend_strength", 5)
             risk_score == risk_score_of(trade_signal.tenths, volatility,
                                         trend_strength)
         IN [default_risk_assessment EXCEPT
               !.risk_score = risk_score,
               !.executable = FracLt(risk_score, EXECUTABLE_BELOW),
               !.position_size_percent = FracMin(max_risk, risk_score)]

\* risk_manager.py:72-114
assess_trade_risk(trade_signal, market_conditions, max_risk) ==
    IF assess_trade_risk_raises(trade_signal)
    THEN default_risk_assessment
    ELSE LET volatility == dict_get(market_conditions, "volatility", 5)
             trend_strength == dict_get(market_conditions, "trend_strength", 5)
             risk_score == risk_score_of(trade_signal.tenths, volatility,
                                         trend_strength)
         IN [default_risk_assessment EXCEPT
               !.risk_score = risk_score,
               !.executable = FracLt(risk_score, EXECUTABLE_BELOW),
               !.position_size_percent =
                   FracMax(MIN_POSITION_SIZE_PERCENT,
                           FracMin(max_risk, risk_score))]

\* mutation: the position is not limited to what the capital can buy
calculate_position_size_NoCap(capital, max_risk, entry_price, stop_loss_price) ==
    IF entry_price = stop_loss_price \/ entry_price = 0
    THEN [raised |-> FALSE, caught |-> "ZeroDivisionError", ret |-> Frac(0, 1)]
    ELSE [raised |-> FALSE, caught |-> "",
          ret |-> Frac(capital * max_risk.num,
                       max_risk.den * Abs(entry_price - stop_loss_price))]

\* risk_manager.py:41-70.  The division at line 61 raises when stop and
\* entry are equal, the one at line 64 when the entry price is 0; the
\* handler at 68-70 logs the exception and returns 0.
calculate_position_size(capital, max_risk, entry_price, stop_loss_price) ==
    IF entry_price = stop_loss_price \/ entry_price = 0
    THEN [raised |-> FALSE, caught |-> "ZeroDivisionError", ret |-> Frac(0, 1)]
    ELSE LET risk_per_unit == Abs(entry_price - stop_loss_price)
             position_size == Frac(capital * max_risk.num,
                                   max_risk.den * risk_per_unit)
             max_allowed_position == Frac(capital, entry_price)
         IN [raised |-> FALSE, caught |-> "",
             ret |-> FracMin(position_size, max_allowed_position)]

(***************************************************************************)
(* TradeExecutor                                                           *)
(***************************************************************************)
\* trade_executor.py:203-214: the trade is popped, nothing else happens
close_trade(trades, symbol) ==
    IF symbol \in DOMAIN trades
    THEN [s \in (DOMAIN trades) \ {symbol} |-> trades[s]]
    ELSE trades

\* mutation: the cap is compared with > instead of >=
can_open_new_trade_CapOffByOne(trades, symbol, t, dt) ==
    IF Cardinality(DOMAIN trades) > max_open_trades
    THEN [ret |-> "False", trades |-> trades]
    ELSE IF symbol \in DOMAIN trades
    THEN IF ~dt
         THEN [ret |-> "NameError", trades |-> trades]
         ELSE IF t - trades[symbol].timestamp > max_trade_duration_hours
         THEN [ret |-> "True", trades |-> close_trade(trades, symbol)]
         ELSE [ret |-> "False", trades |-> trades]
    ELSE [ret |-> "True", trades |-> trades]

\* mutation: the age is compared with >= instead of >
can_open_new_trade_NonStrictAge(trades, symbol, t, dt) ==
    IF Cardinality(DOMAIN trades) >= max_open_trades
    THEN [ret |-> "False", trades |-> trades]
    ELSE IF symbol \in DOMAIN trades
    THEN IF ~dt
         THEN [ret |-> "NameError", trades |-> trades]
         ELSE IF t - trades[symbol].timestamp >= max_trade_duration_hours
         THEN [ret |-> "True", trades |-> close_trade(trades, symbol)]
         ELSE [ret |-> "False", trades |-> trades]
    ELSE [ret |-> "True", trades |-> trades]

\* trade_executor.py:174-201.  ret is the value returned, or the exception
\* raised; trades is active_trades afterwards.  dt says whether the name
\* datetime of line 191 resolves.
can_open_new_trade(trades, symbol, t, dt) ==
    IF Cardinality(DOMAIN trades) >= max_open_trades
    THEN [ret |-> "False", trades |-> trades]
    ELSE IF symbol \in DOMAIN trades
    THEN IF ~dt
         THEN [ret |-> "NameError", trades |-> trades]
         ELSE IF t - trades[symbol].timestamp > max_trade_duration_hours
         THEN [ret |-> "True", trades |-> close_trade(trades, symbol)]
         ELSE [ret |-> "False", trades |-> trades]
    ELSE [ret |-> "True", trades |-> trades]

\* mutation: a direction of 0 buys
side_of_ZeroBuys(signal) == IF signal >= 0 THEN "buy" ELSE "sell"

\* trade_executor.py:115
side_of(signal) == IF signal > 0 THEN "buy" ELSE "sell"

\* mutation: the record is created with a result other than 0
create_trade_result_WithResult(symbol, side, quantity, price, order, t) ==
    [symbol        |-> symbol,
     side          |-> side,
     quantity      |-> quantity,
     entry_price   |-> price,
     timestamp     |-> t,
     order_details |-> order,
     profit_loss   |-> 1]

\* trade_executor.py:216-238 (evaluated only where datetime resolves)
create_trade_result(symbol, side, quantity, price, order, t) ==
    [symbol        |-> symbol,
     side          |-> side,
     quantity      |-> quantity,
     entry_price   |-> price,
     timestamp     |-> t,
     order_details |-> order,
     profit_loss   |-> 0]

\* trade_executor.py:240-260: a failed query is logged and answered with 0
get_available_balance(answer) ==
    IF answer.ok THEN answer.free ELSE 0

\* mutation: record_trade lets the error of the database through
record_trade_Reraises(persist_ok) ==
    [raised |-> ~persist_ok, failed |-> ~persist_ok]

\* performance_monitor.py:51-70: the row is inserted, or the error of the
\* database is logged at line 70; nothing is raised either way
record_trade(persist_ok) ==
    [raised |-> FALSE, failed |-> ~persist_ok]

\* what fetch_balance does: it answers with a free balance, or raises
BalanceAnswers ==
    [ok : {TRUE}, free : Balances] \cup {[ok |-> FALSE, free |-> 0]}

(***************************************************************************)
(* The call record: the locals of execute_trade, what it has done so far,  *)
(* and the retained state as it was when the call started.                 *)
(***************************************************************************)
NoQuantity == [num |-> 0, den |-> 1]

NoCall ==
    [symbol |-> "", signal |-> 0, executable |-> FALSE,
     position_size_percent |-> 0,
     price |-> 0, balance |-> 0, balance_failed |-> FALSE,
     quantity |-> NoQuantity,
     side |-> "",               \* 'buy' or 'sell', once chosen at line 115
     admission |-> "",          \* what _can_open_new_trade answered
     expired |-> FALSE,         \* the admission check closed an over-age trade
     order_calls |-> 0,         \* calls of create_market_*_order
     acked |-> FALSE,           \* the venue acknowledged the order
     recorded |-> FALSE,        \* update_capital_and_metrics was called
     persist_calls |-> 0,       \* calls of record_trade
     persist_failed |-> FALSE,  \* record_trade caught an error of the database
     outcome |-> "",            \* how the call ended
     error |-> "",              \* the exception caught at line 142, if any
     result |-> <<>>,           \* <<>> is None, <<r>> the TradeRecord r
     started |-> 0,             \* the clock at the admission check
     pre_trades |-> <<>>, pre_capital |-> 0, pre_history |-> <<>>]

\* no function application is being examined
NoFn == [applied |-> FALSE]

\* main.py:146-162: run() has not started the trading loop / the monitor;
\* execute_trade is then called directly
LoopOff == [pc |-> "off", i |-> 0, evaluated |-> {}, failed |-> FALSE,
            exit_pc |-> ""]

MonitorOff == [pc |-> "off"]

\* the process once main() has constructed the bot (main.py:170): no report
\* logged, nothing raised, no exit status yet (-1)
ProcessUp ==
    [pc |-> "up", performance_report_logged |-> FALSE,
     risk_report_logged |-> FALSE, raised |-> "", exit_status |-> -1]

Init ==
    /\ has_datetime \in BOOLEAN
    /\ exchanges \in ExchangeSets
    /\ active_trades = <<>>
    /\ current_capital = INITIAL_CAPITAL
    /\ trade_history = <<>>
    /\ risk_metrics = InitialRiskMetrics
    /\ process = ProcessUp
    /\ venue_orders = 0
    /\ now = 0
    /\ pc = "idle"
    /\ call = NoCall
    /\ pending = <<>>
    /\ recorded = {}
    /\ fn = NoFn
    /\ loop = LoopOff
    /\ monitor = MonitorOff

\* the ways execute_trade returns: lines 91, 97, 107, 140 and 144
Finish(c, outcome) == [c EXCEPT !.outcome = outcome]

\* trade_executor.py:142-144: the exception is logged, None is returned
Raise(c, error) == [c EXCEPT !.outcome = "Error", !.error = error]

\* trade_executor.py:85-100: admission check and exchange lookup, up to the
\* await of fetch_ticker
ExecuteTradeStep(sig) ==
    /\ pc = "idle"
    /\ LET adm == can_open_new_trade(active_trades, sig.symbol, now, has_datetime)
           c0  == [NoCall EXCEPT
                     !.symbol = sig.symbol,
                     !.signal = sig.signal,
                     !.executable = sig.executable,
                     !.position_size_percent = sig.position_size_percent,
                     !.admission = adm.ret,
                     !.expired = (adm.trades # active_trades),
                     !.started = now,
                     !.pre_trades = active_trades,
                     !.pre_capital = current_capital,
                     !.pre_history = trade_history]
       IN /\ active_trades' = adm.trades
          /\ IF adm.ret = "NameError"
             THEN pc' = "done" /\ call' = Raise(c0, "NameError")
             ELSE IF adm.ret = "False"
             THEN pc' = "done" /\ call' = Finish(c0, "AdmissionDenied")
             ELSE IF sig.symbol \notin exchanges
             THEN pc' = "done" /\ call' = Finish(c0, "NoExchange")
             ELSE pc' = "ticker" /\ call' = c0
    /\ UNCHANGED <<has_datetime, exchanges, current_capital, trade_history,
                   venue_orders, now, pending, recorded, fn, monitor,
                   risk_metrics, process>>

\* execute_trade called directly, outside the trading loop
ExecuteTrade(sig) ==
    /\ loop.pc = "off"
    /\ ExecuteTradeStep(sig)
    /\ UNCHANGED loop

\* trade_executor.py:100-110: the ticker arrives; the risk verdict is read
FetchTickerReturns(price) ==
    /\ pc = "ticker"
    /\ LET c1 == [call EXCEPT !.price = price]
       IN IF ~call.executable
          THEN pc' = "done" /\ call' = Finish(c1, "NotExecutable")
          ELSE pc' = "balance" /\ call' = c1
    /\ UNCHANGED <<has_datetime, exchanges, active_trades, current_capital,
                   trade_history, venue_orders, now, pending, recorded,
                   fn, loop, monitor, risk_metrics, process>>

\* trade_executor.py:100, 142-144: fetch_ticker raises
FetchTickerFails ==
    /\ pc = "ticker"
    /\ pc' = "done"
    /\ call' = Raise(call, "TickerError")
    /\ UNCHANGED <<has_datetime, exchanges, active_trades, current_capital,
                   trade_history, venue_orders, now, pending, recorded,
                   fn, loop, monitor, risk_metrics, process>>

\* trade_executor.py:110-118: the balance (or 0 for a failed query), the
\* position size and the quantity, up to the await of the order
FetchBalanceAnswers(answer) ==
    /\ pc = "balance"
    /\ LET balance == get_available_balance(answer)
           c1 == [call EXCEPT
                    !.balance = balance,
                    !.balance_failed = ~answer.ok]
       IN IF call.price = 0
          THEN \* ZeroDivisionError at line 112
               pc' = "done" /\ call' = Raise(c1, "ZeroDivisionError")
          ELSE /\ pc' = "order"
               /\ call' = [c1 EXCEPT
                             !.quantity =
                                 [num |-> call.position_size_percent * balance,
                                  den |-> 10000 * call.price],
                             !.side = side_of(call.signal)]
    /\ UNCHANGED <<has_datetime, exchanges, active_trades, current_capital,
                   trade_history, venue_orders, now, pending, recorded,
                   fn, loop, monitor, risk_metrics, process>>

\* trade_executor.py:146-172 then 126-144: the venue acknowledges the order;
\* the record is built, stored, handed to the tracker and to persistence
\* (performance_monitor.py:51-70: record_trade inserts a row, or logs the
\* error of the database and returns).  Building the record evaluates
\* datetime.now() first.
PlaceOrderAcked(persist_ok) ==
    /\ pc = "order"
    /\ venue_orders < MaxOrders
    /\ venue_orders' = venue_orders + 1
    /\ LET c1 == [call EXCEPT !.order_calls = @ + 1, !.acked = TRUE]
       IN IF ~has_datetime
          THEN /\ pc' = "done"
               /\ call' = Raise(c1, "NameError")
               /\ UNCHANGED <<active_trades, current_capital, trade_history,
                              risk_metrics>>
          ELSE LET trade_result ==
                       create_trade_result(call.symbol, call.side,
                                           call.quantity, call.price,
                                           venue_orders + 1, now)
                   upd == update_capital_and_metrics(current_capital,
                                                     trade_history, risk_metrics, trade_result)
               IN /\ active_trades' =
                        [s \in DOMAIN active_trades \cup {call.symbol} |->
                            IF s = call.symbol THEN trade_result
                            ELSE active_trades[s]]
                  /\ current_capital' = upd.current_capital
                  /\ trade_history' = upd.trade_history
                  /\ risk_metrics' = upd.risk_metrics
                  /\ pc' = "done"
                  /\ call' = IF record_trade(persist_ok).raised
                             THEN [Raise(c1, "PersistError") EXCEPT
                                     !.recorded = TRUE,
                                     !.persist_calls = @ + 1,
                                     !.persist_failed = TRUE]
                             ELSE [Finish(c1, "Opened") EXCEPT
                                     !.recorded = TRUE,
                                     !.persist_calls = @ + 1,
                                     !.persist_failed =
                                         record_trade(persist_ok).failed,
                                     !.result = <<trade_result>>]
    /\ UNCHANGED <<has_datetime, exchanges, now, pending, recorded,
                   fn, loop, monitor, process>>

\* mutation: _place_order logs the error and does not re-raise it, so the
\* caller goes on with no order
PlaceOrderFails_NoReraise ==
    /\ pc = "order"
    /\ has_datetime
    /\ LET trade_result ==
               create_trade_result(call.symbol, call.side,
                                   call.quantity, call.price, 0, now)
           upd == update_capital_and_metrics(current_capital, trade_history, risk_metrics,
                                             trade_result)
       IN /\ active_trades' =
                [s \in DOMAIN active_trades \cup {call.symbol} |->
                    IF s = call.symbol THEN trade_result ELSE active_trades[s]]
          /\ current_capital' = upd.current_capital
          /\ trade_history' = upd.trade_history
          /\ risk_metrics' = upd.risk_metrics
          /\ pc' = "done"
          /\ call' = [Finish([call EXCEPT !.order_calls = @ + 1], "Opened")
                        EXCEPT !.recorded = TRUE,
                               !.persist_calls = @ + 1,
                               !.result = <<trade_result>>]
    /\ UNCHANGED <<has_datetime, exchanges, venue_orders, now, pending,
                   recorded,
                   fn, loop, monitor, process>>

\* trade_executor.py:160-172, 142-144: the order call raises
PlaceOrderFails ==
    /\ pc = "order"
    /\ pc' = "done"
    /\ call' = Raise([call EXCEPT !.order_calls = @ + 1], "OrderError")
    /\ UNCHANGED <<has_datetime, exchanges, active_trades, current_capital,
                   trade_history, venue_orders, now, pending, recorded,
                   fn, loop, monitor, risk_metrics, process>>

\* execute_trade has returned call.result to its caller
Return ==
    /\ pc = "done"
    /\ pc' = "idle"
    /\ call' = NoCall
    /\ UNCHANGED <<has_datetime, exchanges, active_trades, current_capital,
                   trade_history, venue_orders, now, pending, recorded,
                   fn, loop, monitor, risk_metrics, process>>

\* time passes, also while execute_trade is suspended
Tick ==
    /\ pc # "done"
    /\ now + TickHours <= MaxTime
    /\ now' = now + TickHours
    /\ UNCHANGED <<has_datetime, exchanges, active_trades, current_capital,
                   trade_history, venue_orders, pc, call, pending, recorded,
                   fn, loop, monitor, risk_metrics, process>>

Next ==
    \/ \E sig \in TradeSignals : ExecuteTrade(sig)
    \/ \E price \in Prices : FetchTickerReturns(price)
    \/ FetchTickerFails
    \/ \E answer \in BalanceAnswers : FetchBalanceAnswers(answer)
    \/ \E persist_ok \in BOOLEAN : PlaceOrderAcked(persist_ok)
    \/ PlaceOrderFails
    \/ Return
    \/ Tick

Spec == Init /\ [][Next]_vars

(***************************************************************************)
(* The bot running: run() (main.py:146-162) starts _trading_loop and       *)
(* _monitor_system_health as two tasks of one event loop.  A task runs     *)
(* from one await to the next without interruption; each action below is   *)
(* one such stretch.  The sleeps of the loops (300 s, 60 s, 3600 s, 600 s) *)
(* are shorter than or equal to one hour and end independently of Tick.    *)
(***************************************************************************)
\* config.py:19, in the order the for loop of main.py:127 visits them
SymbolOrder == <<"BTC/EUR", "ETH/EUR", "SOL/EUR">>

\* mutation: the regime adjustment is not applied
process_prediction_NoAdjustment(predicted_class, regime) ==
    LET signal_mapping == IF predicted_class = 0 THEN -1
                          ELSE IF predicted_class = 2 THEN 1 ELSE 0
    IN signal_mapping * 10

\* trade_strategy.py:137-153: class to direction, times the regime
\* adjustment; in tenths
process_prediction(predicted_class, regime) ==
    LET signal_mapping == IF predicted_class = 0 THEN -1
                          ELSE IF predicted_class = 2 THEN 1 ELSE 0
        adjustment == IF regime = "bullish" THEN 12
                      ELSE IF regime = "bearish" THEN 8
                      ELSE IF regime = "volatile" THEN 5 ELSE 10
    IN signal_mapping * adjustment

\* market_data_manager.py:227-234: what detect_market_regime returns when
\* it caught an exception
regime_fallback == [regime |-> "neutral", volatility |-> 0, trend_strength |-> 0]

\* what detect_market_regime returns otherwise (market_data_manager.py:
\* 206-225): a calm market, and a volatile one
Regimes ==
    {[regime |-> "neutral", volatility |-> 5, trend_strength |-> 0],
     [regime |-> "volatile", volatility |-> 80, trend_strength |-> 5]}

\* classes the scoring function answers while the bot runs its loops
LoopClasses == {2}

\* what the collaborators of generate_trading_signal answer: whether the
\* market data could be fetched, the regime (or the failure of its
\* detection), and the scoring function's answer: a class, an exception
\* (scoring = "raises") or no model for the symbol (scoring = "no_model")
SignalAnswers ==
    [features_ok : BOOLEAN, regime_ok : BOOLEAN, regime : Regimes,
     scoring : {"ok", "raises", "no_model"}, predicted_class : LoopClasses]

\* trade_strategy.py:159-179
default_signal ==
    [symbol |-> "None", signal |-> 0, executable |-> FALSE,
     position_size_percent |-> 0]

\* a percentage as basis points
BasisPoints(percent) == (percent.num * 10000) \div percent.den

\* mutation: the handler of generate_trading_signal re-raises
generate_trading_signal_Reraises(symbol, answer) ==
    LET market_regime == IF answer.regime_ok THEN answer.regime
                         ELSE regime_fallback
        failed == ~answer.features_ok \/ ~answer.regime_ok
                     \/ answer.scoring # "ok"
    IN IF answer.scoring = "no_model"
       THEN [raised |-> FALSE, failed |-> failed, signal |-> default_signal]
       ELSE IF answer.scoring = "raises"
       THEN [raised |-> TRUE, failed |-> failed, signal |-> default_signal]
       ELSE LET signal_value == process_prediction(answer.predicted_class,
                                                   market_regime.regime)
                risk_assessment ==
                    assess_trade_risk(
                        [numeric |-> TRUE, tenths |-> signal_value],
                        [volatility |-> market_regime.volatility,
                         trend_strength |-> market_regime.trend_strength],
                        MAX_RISK_PER_TRADE)
            IN [raised |-> FALSE, failed |-> failed,
                signal |-> [symbol |-> symbol, signal |-> signal_value,
                            executable |-> risk_assessment.executable,
                            position_size_percent |->
                                BasisPoints(risk_assessment.position_size_percent)]]

\* trade_strategy.py:47-98.  get_multi_timeframe_features and
\* detect_market_regime catch their own failures (market_data_manager.py:
\* 171-174, 227-234); whatever the scoring raises is caught at line 96 and
\* the default signal is returned.  raised says whether an exception leaves
\* the function, failed whether a collaborator failed.
generate_trading_signal(symbol, answer) ==
    LET market_regime == IF answer.regime_ok THEN answer.regime
                         ELSE regime_fallback
        failed == ~answer.features_ok \/ ~answer.regime_ok
                     \/ answer.scoring # "ok"
    IN IF answer.scoring = "no_model"
       THEN [raised |-> FALSE, failed |-> failed, signal |-> default_signal]
       ELSE IF answer.scoring = "raises"
       THEN [raised |-> FALSE, failed |-> failed, signal |-> default_signal]
       ELSE LET signal_value == process_prediction(answer.predicted_class,
                                                   market_regime.regime)
                risk_assessment ==
                    assess_trade_risk(
                        [numeric |-> TRUE, tenths |-> signal_value],
                        [volatility |-> market_regime.volatility,
                         trend_strength |-> market_regime.trend_strength],
                        MAX_RISK_PER_TRADE)
            IN [raised |-> FALSE, failed |-> failed,
                signal |-> [symbol |-> symbol, signal |-> signal_value,
                            executable |-> risk_assessment.executable,
                            position_size_percent |->
                                BasisPoints(risk_assessment.position_size_percent)]]

\* generate_trading_signal for the i-th symbol, tabulated over the answers
SignalTable ==
    {[i |-> i, answer |-> answer,
      g |-> generate_trading_signal(SymbolOrder[i], answer)] :
        i \in DOMAIN SymbolOrder, answer \in SignalAnswers}

\* the loops as run() starts them
LoopStart == [pc |-> "signal", i |-> 1, evaluated |-> {}, failed |-> FALSE,
              exit_pc |-> ""]

MonitorStart == [pc |-> "check"]

InitLoop ==
    /\ has_datetime \in BOOLEAN
    /\ exchanges = SYMBOLS
    /\ active_trades = <<>>
    /\ current_capital = INITIAL_CAPITAL
    /\ trade_history = <<>>
    /\ risk_metrics = InitialRiskMetrics
    /\ process = ProcessUp
    /\ venue_orders = 0
    /\ now = 0
    /\ pc = "idle"
    /\ call = NoCall
    /\ pending = <<>>
    /\ recorded = {}
    /\ fn = NoFn
    /\ loop = LoopStart
    /\ monitor = MonitorStart

\* ghost: a collaborator failed for a symbol of this cycle that is not the
\* last one
NoteFailure(l, failed) ==
    [l EXCEPT !.failed = @ \/ (failed /\ l.i < Len(SymbolOrder))]

\* main.py:127, 140: the next symbol, or the sleep between two cycles
NextSymbol(l) ==
    IF l.i < Len(SymbolOrder)
    THEN [l EXCEPT !.pc = "signal", !.i = l.i + 1]
    ELSE [l EXCEPT !.pc = "sleep"]

\* main.py:142-144: an exception in the body of the cycle ends the cycle
CycleAborted(l) == [l EXCEPT !.pc = "error_sleep"]

\* mutation: execute_trade is started and not awaited; the loop goes on to
\* the next symbol
AwaitExecuteTrade_NotAwaited(l) == NextSymbol(l)

\* main.py:131: the loop awaits execute_trade and is suspended until the
\* call returns
AwaitExecuteTrade(l) == [l EXCEPT !.pc = "execute"]

\* main.py:127-133: generate_trading_signal returns for the current symbol;
\* an executable signal is handed to execute_trade, which runs up to its
\* first await
GenerateTradingSignal(answer) ==
    /\ loop.pc = "signal"
    /\ pc = "idle"
    /\ \E row \in SignalTable :
       /\ row.i = loop.i
       /\ row.answer = answer
       /\ LET g == row.g
              l == NoteFailure([loop EXCEPT
                                  !.evaluated = @ \cup {SymbolOrder[loop.i]}],
                               g.failed)
          IN IF g.raised
             THEN /\ loop' = CycleAborted(l)
                  /\ UNCHANGED <<has_datetime, exchanges, active_trades,
                                 current_capital, trade_history, venue_orders,
                                 now, pc, call, pending, recorded, fn, monitor,
                                 risk_metrics, process>>
             ELSE IF g.signal.executable
             THEN /\ ExecuteTradeStep(g.signal)
                  /\ loop' = AwaitExecuteTrade(l)
             ELSE /\ loop' = NextSymbol(l)
                  /\ UNCHANGED <<has_datetime, exchanges, active_trades,
                                 current_capital, trade_history, venue_orders,
                                 now, pc, call, pending, recorded, fn, monitor,
                                 risk_metrics, process>>

\* whether a collaborator failed during the execute_trade call c
CallFailed(c) ==
    c.outcome = "Error" \/ c.balance_failed \/ c.persist_failed

\* main.py:133-137: execute_trade has returned to the loop
TradingLoopResumes ==
    /\ loop.pc = "execute"
    /\ pc = "done"
    /\ pc' = "idle"
    /\ call' = NoCall
    /\ loop' = NextSymbol(NoteFailure(loop, CallFailed(call)))
    /\ UNCHANGED <<has_datetime, exchanges, active_trades, current_capital,
                   trade_history, venue_orders, now, pending, recorded,
                   fn, monitor, risk_metrics, process>>

\* main.py:124-127, 140, 144: a sleep of the trading loop ends and the next
\* cycle starts with the first symbol
TradingLoopWakes ==
    /\ loop.pc \in {"sleep", "error_sleep"}
    /\ loop' = LoopStart
    /\ UNCHANGED <<has_datetime, exchanges, active_trades, current_capital,
                   trade_history, venue_orders, now, pc, call, pending,
                   recorded, fn, monitor, risk_metrics, process>>

\* what get_performance_metrics returns (performance_monitor.py:111-139):
\* the row of cursor.fetchone(), a tuple, or None after an exception
MetricsAnswers == {"tuple", "None"}

\* mutation: the monitor does not catch the exception of an iteration
monitor_iteration_Uncaught(metrics) ==
    IF metrics \in {"tuple", "None"} THEN "terminated" ELSE "sleep"

\* main.py:97-118: one iteration of the monitor up to its sleep.  Line 106
\* calls performance_metrics.get, which neither a tuple nor None has: the
\* AttributeError is caught at line 116 and the loop sleeps 600 s.
monitor_iteration(metrics) ==
    IF metrics \in {"tuple", "None"} THEN "error_sleep" ELSE "sleep"

MonitorChecks(metrics) ==
    /\ monitor.pc = "check"
    /\ monitor' = [monitor EXCEPT !.pc = monitor_iteration(metrics)]
    /\ UNCHANGED <<has_datetime, exchanges, active_trades, current_capital,
                   trade_history, venue_orders, now, pc, call, pending,
                   recorded, fn, loop, risk_metrics, process>>

\* main.py:97, 113, 118: the sleep of the monitor ends
MonitorWakes ==
    /\ monitor.pc \in {"sleep", "error_sleep"}
    /\ monitor' = [monitor EXCEPT !.pc = "check"]
    /\ UNCHANGED <<has_datetime, exchanges, active_trades, current_capital,
                   trade_history, venue_orders, now, pc, call, pending,
                   recorded, fn, loop, risk_metrics, process>>

\* the steps of the trading task
TradingSteps ==
    \/ \E answer \in SignalAnswers : GenerateTradingSignal(answer)
    \/ \E price \in LoopPrices : FetchTickerReturns(price)
    \/ FetchTickerFails
    \/ \E answer \in BalanceAnswers : FetchBalanceAnswers(answer)
    \/ \E persist_ok \in BOOLEAN : PlaceOrderAcked(persist_ok)
    \/ PlaceOrderFails
    \/ TradingLoopResumes
    \/ TradingLoopWakes

\* the steps of the monitoring task
MonitorSteps ==
    \/ \E metrics \in MetricsAnswers : MonitorChecks(metrics)
    \/ MonitorWakes

NextRun ==
    \/ \E answer \in SignalAnswers : GenerateTradingSignal(answer)
    \/ \E price \in LoopPrices : FetchTickerReturns(price)
    \/ FetchTickerFails
    \/ \E answer \in BalanceAnswers : FetchBalanceAnswers(answer)
    \/ \E persist_ok \in BOOLEAN : PlaceOrderAcked(persist_ok)
    \/ PlaceOrderFails
    \/ TradingLoopResumes
    \/ TradingLoopWakes
    \/ \E metrics \in MetricsAnswers : MonitorChecks(metrics)
    \/ MonitorWakes
    \/ Tick

SpecRun == InitLoop /\ [][NextRun]_vars

\* The event loop runs every task that can take a step, a sleep ends, and a
\* collaborator that is awaited answers, by returning or by raising.
SpecRunFair ==
    /\ InitLoop
    /\ [][NextRun]_vars
    /\ WF_vars(TradingSteps)
    /\ WF_vars(MonitorSteps)

\* generate_trading_signal returns an executable signal for the i-th symbol
ExecutableSignalFor(i) ==
    /\ loop.i = i
    /\ \E row \in SignalTable :
          /\ row.i = i
          /\ row.g.signal.executable
          /\ GenerateTradingSignal(row.answer)

\* As SpecRunFair, and executable signals keep arriving for every
\* configured symbol.
SpecRunSignals ==
    /\ InitLoop
    /\ [][NextRun]_vars
    /\ WF_vars(TradingSteps)
    /\ WF_vars(MonitorSteps)
    /\ \A i \in DOMAIN SymbolOrder : SF_vars(ExecutableSignalFor(i))

\* main.py:71-91: _graceful_shutdown.  Line 83 iterates
\* performance_report.items(); get_performance_metrics returns a tuple or
\* None, which have no items(): AttributeError is raised before anything of
\* either report is logged.  Had the report been a dict, both reports would
\* be logged and line 91 would raise SystemExit(0).
graceful_shutdown(metrics) ==
    IF metrics \in {"tuple", "None"}
    THEN [performance_report_logged |-> FALSE, risk_report_logged |-> FALSE,
          raised |-> "AttributeError", code |-> -1]
    ELSE [performance_report_logged |-> TRUE, risk_report_logged |-> TRUE,
          raised |-> "SystemExit", code |-> 0]

\* main.py:164-177: what leaves asyncio.run ends the process: an Exception
\* is logged by main() and answered with sys.exit(1), SystemExit passes
\* through with its own code
process_exit(shutdown) ==
    [pc |-> "exited",
     performance_report_logged |-> shutdown.performance_report_logged,
     risk_report_logged |-> shutdown.risk_report_logged,
     raised |-> shutdown.raised,
     exit_status |-> IF shutdown.raised = "SystemExit"
                     THEN shutdown.code ELSE 1]

\* main.py:63-91: SIGINT or SIGTERM arrives while the event loop waits.
\* _graceful_shutdown runs at once in the main thread; line 83 calls
\* performance_report.items() on the tuple or None that
\* get_performance_metrics returns, and the AttributeError leaves the event
\* loop (had it not, line 91 would raise SystemExit at the same point).
\* asyncio.run cancels both tasks where they are suspended and the process
\* exits (main.py:164-177).
ShutdownSignal ==
    /\ loop.pc \notin {"off", "exited"}
    /\ loop' = [loop EXCEPT !.pc = "exited", !.exit_pc = pc]
    /\ monitor' = [monitor EXCEPT !.pc = "exited"]
    /\ pc' = "exited"
    /\ \E metrics \in MetricsAnswers :
          process' = process_exit(graceful_shutdown(metrics))
    /\ UNCHANGED <<has_datetime, exchanges, active_trades, current_capital,
                   trade_history, venue_orders, now, call, pending, recorded,
                   fn, risk_metrics>>

NextLoop ==
    \/ \E answer \in SignalAnswers : GenerateTradingSignal(answer)
    \/ \E price \in LoopPrices : FetchTickerReturns(price)
    \/ FetchTickerFails
    \/ \E answer \in BalanceAnswers : FetchBalanceAnswers(answer)
    \/ \E persist_ok \in BOOLEAN : PlaceOrderAcked(persist_ok)
    \/ PlaceOrderFails
    \/ TradingLoopResumes
    \/ TradingLoopWakes
    \/ \E metrics \in MetricsAnswers : MonitorChecks(metrics)
    \/ MonitorWakes
    \/ Tick
    \/ ShutdownSignal

SpecLoop == InitLoop /\ [][NextLoop]_vars

(***************************************************************************)
(* The Capital & Metrics Tracker on its own: a caller hands it closed      *)
(* trades, each with the profit_loss computed at close time, in any order. *)
(***************************************************************************)
\* a closed trade with its profit_loss filled in
ClosedTrade(profit_loss) ==
    [create_trade_result("BTC/EUR", "buy", NoQuantity, 100, 0, 0)
        EXCEPT !.profit_loss = profit_loss]

ClosedTradeLists ==
    UNION {[1..n -> {ClosedTrade(p) : p \in ProfitLosses}] : n \in 1..MaxRecorded}

InitTracker ==
    /\ has_datetime = FALSE
    /\ exchanges = SYMBOLS
    /\ active_trades = <<>>
    /\ current_capital = INITIAL_CAPITAL
    /\ trade_history = <<>>
    /\ risk_metrics = InitialRiskMetrics
    /\ process = ProcessUp
    /\ venue_orders = 0
    /\ now = 0
    /\ pc = "idle"
    /\ call = NoCall
    /\ pending \in ClosedTradeLists
    /\ recorded = {}
    /\ fn = NoFn
    /\ loop = LoopOff
    /\ monitor = MonitorOff

\* risk_manager.py:116-134, called with the i-th closed trade
RecordTrade(i) ==
    /\ i \in DOMAIN pending \ recorded
    /\ LET upd == update_capital_and_metrics(current_capital, trade_history, risk_metrics,
                                             pending[i])
       IN /\ current_capital' = upd.current_capital
          /\ trade_history' = upd.trade_history
          /\ risk_metrics' = upd.risk_metrics
    /\ recorded' = recorded \cup {i}
    /\ UNCHANGED <<has_datetime, exchanges, active_trades, venue_orders, now,
                   pc, call, pending, fn, loop, monitor, process>>

NextTracker == \E i \in DOMAIN pending : RecordTrade(i)

SpecTracker == InitTracker /\ [][NextTracker]_vars

(***************************************************************************)
(* The functions of RiskManagementSystem on their own: the arguments are   *)
(* drawn at start and the function is applied once.                        *)
(***************************************************************************)
\* nothing of the bot is running
AtRest ==
    /\ has_datetime = FALSE
    /\ exchanges = SYMBOLS
    /\ active_trades = <<>>
    /\ current_capital = INITIAL_CAPITAL
    /\ trade_history = <<>>
    /\ risk_metrics = InitialRiskMetrics
    /\ process = ProcessUp
    /\ venue_orders = 0
    /\ now = 0
    /\ pc = "idle"
    /\ call = NoCall
    /\ pending = <<>>
    /\ recorded = {}
    /\ loop = LoopOff
    /\ monitor = MonitorOff

InitAssess ==
    /\ AtRest
    /\ fn \in [trade_signal : AssessSignals,
                market_conditions : MarketConditions,
                max_risk_per_trade : MaxRisks,
                applied : {FALSE},
                out : {default_risk_assessment}]

\* risk_manager.py:72-114, called with the arguments drawn
AssessTradeRisk ==
    /\ ~fn.applied
    /\ fn' = [fn EXCEPT
                !.applied = TRUE,
                !.out = assess_trade_risk(fn.trade_signal,
                                          fn.market_conditions,
                                          fn.max_risk_per_trade)]
    /\ UNCHANGED <<has_datetime, exchanges, active_trades, current_capital,
                   trade_history, venue_orders, now, pc, call, pending,
                   recorded, loop, monitor, risk_metrics, process>>

NextAssess == AssessTradeRisk

SpecAssess == InitAssess /\ [][NextAssess]_vars

\* calculate_position_size has not returned
NoSize == [raised |-> FALSE, caught |-> "", ret |-> Frac(0, 1)]

InitSize ==
    /\ AtRest
    /\ fn \in [entry_price : EntryPrices,
                stop_loss_price : StopLossPrices,
                current_capital : Capitals,
                max_risk_per_trade : MaxRisks,
                applied : {FALSE},
                out : {NoSize}]

\* risk_manager.py:41-70, called with the arguments drawn
CalculatePositionSize ==
    /\ ~fn.applied
    /\ fn' = [fn EXCEPT
                !.applied = TRUE,
                !.out = calculate_position_size(fn.current_capital,
                                                fn.max_risk_per_trade,
                                                fn.entry_price,
                                                fn.stop_loss_price)]
    /\ UNCHANGED <<has_datetime, exchanges, active_trades, current_capital,
                   trade_history, venue_orders, now, pc, call, pending,
                   recorded, loop, monitor, risk_metrics, process>>

NextSize == CalculatePositionSize

SpecSize == InitSize /\ [][NextSize]_vars

(***************************************************************************)
(* execute_trade against a venue account that holds more than the capital  *)
(* the tracker was started with: the balance is whatever fetch_balance     *)
(* reports as free, and nothing relates it to current_capital.             *)
(***************************************************************************)
\* free quote balance the venue reports
VenueBalances == {1000, 1500000}

VenueBalanceAnswers ==
    [ok : {TRUE}, free : VenueBalances] \cup {[ok |-> FALSE, free |-> 0]}

\* signals for a configured symbol whose risk verdict is executable
ExecutableSignals ==
    {sig \in TradeSignals : sig.executable /\ sig.symbol \in SYMBOLS}

NextOrder ==
    \/ \E sig \in ExecutableSignals : ExecuteTrade(sig)
    \/ \E price \in Prices : FetchTickerReturns(price)
    \/ FetchTickerFails
    \/ \E answer \in VenueBalanceAnswers : FetchBalanceAnswers(answer)
    \/ \E persist_ok \in BOOLEAN : PlaceOrderAcked(persist_ok)
    \/ PlaceOrderFails
    \/ Return

SpecOrder == Init /\ [][NextOrder]_vars

(***************************************************************************)
(* The tracker handed trades that closed with losses larger than the       *)
(* capital it holds.                                                       *)
(***************************************************************************)
\* profit_loss values of trades closed at a heavy loss, and of a winner
LargeLosses == {-12000, -6000, 300}

LossTradeLists ==
    UNION {[1..n -> {ClosedTrade(p) : p \in LargeLosses}] : n \in 1..MaxRecorded}

InitTrackerLosses ==
    /\ has_datetime = FALSE
    /\ exchanges = SYMBOLS
    /\ active_trades = <<>>
    /\ current_capital = INITIAL_CAPITAL
    /\ trade_history = <<>>
    /\ risk_metrics = InitialRiskMetrics
    /\ process = ProcessUp
    /\ venue_orders = 0
    /\ now = 0
    /\ pc = "idle"
    /\ call = NoCall
    /\ pending \in LossTradeLists
    /\ recorded = {}
    /\ fn = NoFn
    /\ loop = LoopOff
    /\ monitor = MonitorOff

NextTrackerLosses == \E i \in DOMAIN pending : RecordTrade(i)

SpecTrackerLosses == InitTrackerLosses /\ [][NextTrackerLosses]_vars

(***************************************************************************)
(* MarketDataManager.detect_market_regime on its own.  The features are    *)
(* what get_multi_timeframe_features returns: a dict with an entry for     *)
(* every timeframe whose data could be fetched (market_data_manager.py:    *)
(* 163-176; a failed fetch is logged and leaves no entry).  Only the 1h    *)
(* and 4h entries are read.  bb_width is a percentage and rsi a number in  *)
(* [0, 100]; both are whole numbers here and their means exact fractions.  *)
(***************************************************************************)
\* an indicator value: a number, or a value np.mean cannot average
Num(v) == [numeric |-> TRUE, v |-> v]

NotNumber == [numeric |-> FALSE, v |-> 0]

BbWidths == {2, 4, 6}

Rsis == {30, 40, 50, 60, 70, 80}

\* the last row of a timeframe: with the indicators, without them (what
\* extract_advanced_features returns when it failed, lines 147-149), or
\* with an indicator that is not a number
Frames ==
    {[bb_width |-> Num(b), rsi |-> Num(r)] : b \in BbWidths, r \in Rsis}
       \cup {[close |-> Num(100)]}
       \cup {[bb_width |-> NotNumber, rsi |-> Num(50)]}

RegimeTimeframes == {"1h", "4h"}

\* features_by_timeframe: the timeframes whose fetch succeeded
FeatureDicts == UNION {[S -> Frames] : S \in SUBSET RegimeTimeframes}

\* market_data_manager.py:193-196 and 200-203
volatility_indicators(features) ==
    <<dict_get(dict_get(features, "1h", <<>>), "bb_width", Num(0)),
      dict_get(dict_get(features, "4h", <<>>), "bb_width", Num(0))>>

trend_indicators(features) ==
    <<dict_get(dict_get(features, "1h", <<>>), "rsi", Num(50)),
      dict_get(dict_get(features, "4h", <<>>), "rsi", Num(50))>>

\* np.mean of two values raises TypeError when one is not a number
mean_raises(values) == \E k \in DOMAIN values : ~values[k].numeric

\* np.mean of two numbers
mean(values) == Frac(values[1].v + values[2].v, 2)

\* abs(avg_trend - 50), with avg_trend a fraction
trend_deviation(avg_trend) ==
    Frac(Abs(avg_trend.num - 50 * avg_trend.den), avg_trend.den)

\* market_data_manager.py:229-234: the answer of the exception handler
regime_after_exception ==
    [regime |-> "neutral", confidence |-> Frac(1, 2),
     volatility |-> Frac(0, 1), trend_strength |-> Frac(0, 1),
     caught |-> TRUE]

\* mutation: the trend rules are tried before the volatility rule
detect_market_regime_TrendFirst(features) ==
    IF mean_raises(volatility_indicators(features))
          \/ mean_raises(trend_indicators(features))
    THEN regime_after_exception
    ELSE LET avg_volatility == mean(volatility_indicators(features))
             avg_trend == mean(trend_indicators(features))
             deviation == trend_deviation(avg_trend)
             verdict ==
                 IF FracLt(Frac(60, 1), avg_trend)
                 THEN [regime |-> "bullish",
                       confidence |-> FracMul(deviation, Frac(1, 50))]
                 ELSE IF FracLt(avg_trend, Frac(40, 1))
                 THEN [regime |-> "bearish",
                       confidence |-> FracMul(deviation, Frac(1, 50))]
                 ELSE IF /\ FracLt(Frac(3, 1), avg_volatility)
                         /\ FracLt(Frac(10, 1), deviation)
                 THEN [regime |-> "volatile",
                       confidence |->
                           FracMin(Frac(1, 1),
                                   FracMul(avg_volatility, Frac(1, 5)))]
                 ELSE [regime |-> "neutral", confidence |-> Frac(1, 2)]
         IN [regime |-> verdict.regime,
             confidence |-> verdict.confidence,
             volatility |-> avg_volatility,
             trend_strength |-> FracMul(deviation, Frac(1, 50)),
             caught |-> FALSE]

\* market_data_manager.py:178-234, after get_multi_timeframe_features has
\* returned features
detect_market_regime(features) ==
    IF mean_raises(volatility_indicators(features))
          \/ mean_raises(trend_indicators(features))
    THEN regime_after_exception
    ELSE LET avg_volatility == mean(volatility_indicators(features))
             avg_trend == mean(trend_indicators(features))
             deviation == trend_deviation(avg_trend)
             verdict ==
                 IF /\ FracLt(Frac(3, 1), avg_volatility)
                    /\ FracLt(Frac(10, 1), deviation)
                 THEN [regime |-> "volatile",
                       confidence |->
                           FracMin(Frac(1, 1),
                                   FracMul(avg_volatility, Frac(1, 5)))]
                 ELSE IF FracLt(Frac(60, 1), avg_trend)
                 THEN [regime |-> "bullish",
                       confidence |-> FracMul(deviation, Frac(1, 50))]
                 ELSE IF FracLt(avg_trend, Frac(40, 1))
                 THEN [regime |-> "bearish",
                       confidence |-> FracMul(deviation, Frac(1, 50))]
                 ELSE [regime |-> "neutral", confidence |-> Frac(1, 2)]
         IN [regime |-> verdict.regime,
             confidence |-> verdict.confidence,
             volatility |-> avg_volatility,
             trend_strength |-> FracMul(deviation, Frac(1, 50)),
             caught |-> FALSE]

\* detect_market_regime has not returned
NoRegime ==
    [regime |-> "", confidence |-> Frac(0, 1), volatility |-> Frac(0, 1),
     trend_strength |-> Frac(0, 1), caught |-> FALSE]

InitRegime ==
    /\ AtRest
    /\ fn \in [features : FeatureDicts, applied : {FALSE}, out : {NoRegime}]

\* market_data_manager.py:178-234, called with the features drawn
DetectMarketRegime ==
    /\ ~fn.applied
    /\ fn' = [fn EXCEPT !.applied = TRUE,
                        !.out = detect_market_regime(fn.features)]
    /\ UNCHANGED <<has_datetime, exchanges, active_trades, current_capital,
                   trade_history, venue_orders, now, pc, call, pending,
                   recorded, loop, monitor, risk_metrics, process>>

NextRegime == DetectMarketRegime

SpecRegime == InitRegime /\ [][NextRegime]_vars

(***************************************************************************)
(* TradingSignalGenerator._process_prediction on its own.  The prediction  *)
(* is the output of the softmax of line 205: three class scores, in tenths *)
(* here, that add up to 1.  The regime is any answer of                    *)
(* detect_market_regime.                                                   *)
(***************************************************************************)
Predictions ==
    {<<7, 2, 1>>, <<2, 7, 1>>, <<1, 2, 7>>, <<4, 4, 2>>, <<2, 4, 4>>}

\* every answer of detect_market_regime on the features above
RegimeResults == {detect_market_regime(features) : features \in FeatureDicts}

\* torch.max(prediction): the largest score
max_score(prediction) ==
    CHOOSE m \in {prediction[k] : k \in DOMAIN prediction} :
        \A k \in DOMAIN prediction : prediction[k] <= m

\* torch.max(prediction, 1): the index, from 0, of the first largest score
predicted_class_of(prediction) ==
    (CHOOSE k \in DOMAIN prediction :
        /\ prediction[k] = max_score(prediction)
        /\ \A j \in DOMAIN prediction :
              prediction[j] = max_score(prediction) => k <= j) - 1

\* trade_strategy.py:127-157: the pair (signal_value, confidence), the
\* signal in tenths
process_prediction_pair(prediction, market_regime) ==
    [signal_value |-> process_prediction(predicted_class_of(prediction),
                                         market_regime.regime),
     confidence |-> FracMul(Frac(max_score(prediction), 10),
                            market_regime.confidence)]

\* _process_prediction has not returned
NoPair == [signal_value |-> 0, confidence |-> Frac(0, 1)]

InitAggregate ==
    /\ AtRest
    /\ fn \in [prediction : Predictions, market_regime : RegimeResults,
                applied : {FALSE}, out : {NoPair}]

\* trade_strategy.py:127-157, called with the arguments drawn
ProcessPrediction ==
    /\ ~fn.applied
    /\ fn' = [fn EXCEPT
                !.applied = TRUE,
                !.out = process_prediction_pair(fn.prediction,
                                                fn.market_regime)]
    /\ UNCHANGED <<has_datetime, exchanges, active_trades, current_capital,
                   trade_history, venue_orders, now, pc, call, pending,
                   recorded, loop, monitor, risk_metrics, process>>

NextAggregate == ProcessPrediction

SpecAggregate == InitAggregate /\ [][NextAggregate]_vars

(***************************************************************************)
(* TradingSignalGenerator.generate_trading_signal on its own: the symbol   *)
(* and the answers of its collaborators are drawn at start.                *)
(***************************************************************************)
\* generate_trading_signal has not returned
NoSignal == [raised |-> FALSE, failed |-> FALSE, signal |-> default_signal]

InitSignal ==
    /\ AtRest
    /\ fn \in [symbol : SYMBOLS, answer : SignalAnswers,
                applied : {FALSE}, out : {NoSignal}]

\* trade_strategy.py:47-98, called with the symbol and the answers drawn
GenerateSignalOnce ==
    /\ ~fn.applied
    /\ fn' = [fn EXCEPT
                !.applied = TRUE,
                !.out = generate_trading_signal(fn.symbol, fn.answer)]
    /\ UNCHANGED <<has_datetime, exchanges, active_trades, current_capital,
                   trade_history, venue_orders, now, pc, call, pending,
                   recorded, loop, monitor, risk_metrics, process>>

NextSignal == GenerateSignalOnce

SpecSignal == InitSignal /\ [][NextSignal]_vars

(***************************************************************************)
(* The process from main() on: the bot's construction may fail, run() may  *)
(* fail before its two tasks exist, and otherwise the two loops run as in  *)
(* SpecRun.                                                                *)
(***************************************************************************)

InitFatal ==
    /\ has_datetime \in BOOLEAN
    /\ exchanges = SYMBOLS
    /\ active_trades = <<>>
    /\ current_capital = INITIAL_CAPITAL
    /\ trade_history = <<>>
    /\ risk_metrics = InitialRiskMetrics
    /\ process = [ProcessUp EXCEPT !.pc = "main"]
    /\ venue_orders = 0
    /\ now = 0
    /\ pc = "idle"
    /\ call = NoCall
    /\ pending = <<>>
    /\ recorded = {}
    /\ fn = NoFn
    /\ loop = LoopOff
    /\ monitor = MonitorOff

\* main.py:168-177: QuantumTradeBot(...) raises (logging set-up, a
\* component's constructor); main() logs the error and calls sys.exit(1).
\* There is no bot yet, so no report is logged.
StartupFails ==
    /\ process.pc = "main"
    /\ process' = [process EXCEPT !.pc = "exited", !.raised = "Exception",
                                  !.exit_status = 1]
    /\ UNCHANGED <<has_datetime, exchanges, active_trades, current_capital,
                   trade_history, venue_orders, now, pc, call, pending,
                   recorded, fn, loop, monitor, risk_metrics>>

\* main.py:170-173: the bot is constructed and asyncio.run enters run()
StartupSucceeds ==
    /\ process.pc = "main"
    /\ process' = [process EXCEPT !.pc = "run"]
    /\ UNCHANGED <<has_datetime, exchanges, active_trades, current_capital,
                   trade_history, venue_orders, now, pc, call, pending,
                   recorded, fn, loop, monitor, risk_metrics>>

\* main.py:150-158: run() creates the two tasks and waits for them
RunStarts ==
    /\ process.pc = "run"
    /\ process' = [process EXCEPT !.pc = "up"]
    /\ loop' = LoopStart
    /\ monitor' = MonitorStart
    /\ UNCHANGED <<has_datetime, exchanges, active_trades, current_capital,
                   trade_history, venue_orders, now, pc, call, pending,
                   recorded, fn, risk_metrics>>

\* main.py:160-162 and 175-177: an exception inside run()'s try block is
\* caught there and answered with _graceful_shutdown(None, None); what that
\* call raises escapes run() and asyncio.run, and main() ends the process.
RunFails ==
    /\ process.pc = "run"
    /\ \E metrics \in MetricsAnswers :
          process' = process_exit(graceful_shutdown(metrics))
    /\ UNCHANGED <<has_datetime, exchanges, active_trades, current_capital,
                   trade_history, venue_orders, now, pc, call, pending,
                   recorded, fn, loop, monitor, risk_metrics>>

NextFatal ==
    \/ StartupFails
    \/ StartupSucceeds
    \/ RunStarts
    \/ RunFails
    \/ \E answer \in SignalAnswers : GenerateTradingSignal(answer)
    \/ \E price \in LoopPrices : FetchTickerReturns(price)
    \/ FetchTickerFails
    \/ \E answer \in BalanceAnswers : FetchBalanceAnswers(answer)
    \/ \E persist_ok \in BOOLEAN : PlaceOrderAcked(persist_ok)
    \/ PlaceOrderFails
    \/ TradingLoopResumes
    \/ TradingLoopWakes
    \/ \E metrics \in MetricsAnswers : MonitorChecks(metrics)
    \/ MonitorWakes
    \/ Tick

SpecFatal == InitFatal /\ [][NextFatal]_vars

(***************************************************************************)
(* Properties                                                              *)
(***************************************************************************)
\* an execute_trade call has started and its caller has not resumed yet
InCall == pc # "idle"

\* the call has come to one of its return statements
Returned == pc = "done"

OpenCount(trades) == Cardinality(DOMAIN trades)

\* the symbol of the call had an Open trade when the call started
HadOpenTrade == call.symbol \in DOMAIN call.pre_trades

\* age, at the admission check, of the trade the symbol had Open
AgeAtCheck == call.started - call.pre_trades[call.symbol].timestamp

TrackerUnchanged ==
    /\ current_capital = call.pre_capital
    /\ trade_history = call.pre_history

\* C1: at most max_open_trades trades are Open in every reachable state, and
\* a call for a symbol with no Open trade made while max_open_trades trades
\* are Open is rejected by the admission check with the open set unchanged.
C1_OpenTradesBounded ==
    /\ OpenCount(active_trades) <= max_open_trades
    /\ (/\ InCall
        /\ ~HadOpenTrade
        /\ OpenCount(call.pre_trades) >= max_open_trades)
       => /\ Returned
          /\ call.outcome = "AdmissionDenied"
          /\ call.result = <<>>
          /\ active_trades = call.pre_trades

C1_Witness ==
    /\ Returned
    /\ OpenCount(call.pre_trades) = max_open_trades
    /\ ~HadOpenTrade
    /\ call.outcome = "AdmissionDenied"

\* C2: an admission check for a symbol whose Open trade is older than
\* max_trade_duration_hours closes that trade and admits the new proposal,
\* however many trades of other symbols are Open.
C2_ExpiredClosedAndAdmitted ==
    (InCall /\ HadOpenTrade /\ AgeAtCheck > max_trade_duration_hours)
       => (call.expired /\ call.admission = "True")

\* C3: every Open trade is filed under its own symbol (one per symbol), and a
\* call for a symbol whose Open trade is at most max_trade_duration_hours old
\* is rejected: no order call, None returned, active_trades, current_capital
\* and trade_history as before.
C3_OneOpenTradePerSymbol ==
    /\ \A s \in DOMAIN active_trades : active_trades[s].symbol = s
    /\ (InCall /\ HadOpenTrade /\ AgeAtCheck <= max_trade_duration_hours)
       => /\ Returned
          /\ call.outcome = "AdmissionDenied"
          /\ call.result = <<>>
          /\ call.order_calls = 0
          /\ active_trades = call.pre_trades
          /\ TrackerUnchanged

C3_Witness ==
    /\ Returned
    /\ HadOpenTrade
    /\ AgeAtCheck = max_trade_duration_hours
    /\ call.outcome = "AdmissionDenied"

RECURSIVE SumProfitLoss(_)
SumProfitLoss(indices) ==
    IF indices = {} THEN 0
    ELSE LET i == CHOOSE j \in indices : TRUE
         IN pending[i].profit_loss + SumProfitLoss(indices \ {i})

\* C4: after the tracker has recorded any of the closed trades, in whatever
\* order, current_capital is initial_capital plus the sum of their
\* profit_loss values (so the final value is the same for every order).
C4_CapitalIsInitialPlusSum ==
    /\ current_capital = INITIAL_CAPITAL + SumProfitLoss(recorded)
    /\ Len(trade_history) = Cardinality(recorded)

C4_Witness ==
    /\ recorded = DOMAIN pending
    /\ Len(pending) >= 2
    /\ trade_history[1] # pending[1]
    /\ current_capital # INITIAL_CAPITAL

\* C5: an execute_trade call, which never performs a Close transition that
\* records a result, leaves current_capital and trade_history as they were,
\* whether it opens a trade, is rejected or fails.
C5_TrackerWrittenOnlyOnClose ==
    InCall => TrackerUnchanged

\* the trade the admission check force-closed is in the tracker's history
ExpiredTradeRecorded ==
    \E i \in (Len(call.pre_history) + 1)..Len(trade_history) :
        /\ trade_history[i].symbol = call.symbol
        /\ trade_history[i].timestamp = call.pre_trades[call.symbol].timestamp

\* C6: when the admission check force-closes an expired trade, the closed
\* trade is recorded in the tracker, or the close is reported as an error by
\* the check; it is never dropped silently.
C6_ExpiredCloseRecorded ==
    (InCall /\ call.expired)
       => (ExpiredTradeRecorded \/ call.admission \notin {"True", "False"})

\* the call added no record to active_trades, and changed none
NoRecordAdded ==
    /\ DOMAIN active_trades \subseteq DOMAIN call.pre_trades
    /\ \A s \in DOMAIN active_trades : active_trades[s] = call.pre_trades[s]

\* C7: one execute_trade call makes at most one order call, and exactly one
\* when it opens a trade; when the order call fails the call returns None,
\* adds no record to active_trades and leaves the tracker as it was.
C7_OrderPlacedAtMostOnce ==
    InCall =>
       /\ call.order_calls <= 1
       /\ (call.outcome = "Opened" => call.order_calls = 1)
       /\ (call.order_calls = 1 /\ ~call.acked)
          => /\ Returned
             /\ call.result = <<>>
             /\ NoRecordAdded
             /\ TrackerUnchanged

C7_Witness ==
    /\ Returned
    /\ call.error = "OrderError"
    /\ call.order_calls = 1
    /\ call.pre_trades # <<>>

\* C8: once the venue has acknowledged the order of a call, the call returns
\* a TradeRecord that is stored in active_trades under its symbol and has
\* been handed to the tracker and to persistence.
C8_AckedOrderHasRecord ==
    (InCall /\ call.acked)
       => /\ call.result # <<>>
          /\ call.symbol \in DOMAIN active_trades
          /\ call.result = <<active_trades[call.symbol]>>
          /\ call.recorded
          /\ call.persist_calls = 1

\* the call ended on a failed venue call
VenueFailed ==
    /\ Returned
    /\ \/ call.outcome = "NoExchange"
       \/ call.error \in {"TickerError", "OrderError"}

\* C9: a call that ends on a failed venue call (no exchange, ticker error,
\* order error) leaves the whole retained state as it was: current_capital,
\* trade_history and active_trades, the trade its symbol had Open included.
C9_VenueFailureChangesNothing ==
    VenueFailed => (active_trades = call.pre_trades /\ TrackerUnchanged)

\* C10: a call whose balance query failed makes no order call and creates
\* no TradeRecord.
C10_BalanceFailureAborts ==
    (InCall /\ call.balance_failed)
       => /\ call.order_calls = 0
          /\ ~call.recorded
          /\ call.result = <<>>

\* C11: a call with a signal whose risk assessment is not executable makes
\* no order call, creates no TradeRecord, returns None and leaves
\* active_trades, current_capital and trade_history as they were.
C11_NotExecutableChangesNothing ==
    (InCall /\ ~call.executable)
       => /\ call.order_calls = 0
          /\ ~call.recorded
          /\ call.result = <<>>
          /\ active_trades = call.pre_trades
          /\ TrackerUnchanged

\* the symbols the cycle has passed, given the position of the loop
SymbolsUpTo(n) == {SymbolOrder[k] : k \in 1..n}

\* C12: in a cycle of the trading loop no failure of a collaborator ends the
\* cycle early: the loop never takes its error pause, every symbol before
\* the current one has been evaluated, and the sleep between cycles starts
\* only when every configured symbol has been evaluated.
C12_FailureDoesNotEndCycle ==
    /\ loop.pc # "error_sleep"
    /\ loop.pc = "signal" => loop.evaluated = SymbolsUpTo(loop.i - 1)
    /\ loop.pc = "execute" => loop.evaluated = SymbolsUpTo(loop.i)
    /\ loop.pc = "sleep" => loop.evaluated = SYMBOLS

\* a collaborator failed for a symbol that is not the last one, and the
\* cycle went on to evaluate every symbol
C12_Witness ==
    /\ loop.pc = "sleep"
    /\ loop.failed
    /\ loop.evaluated = SYMBOLS

\* C13: with no shutdown signal and fair scheduling, the trading loop
\* starts a cycle again and again and the monitor performs a check again
\* and again, whatever fails: each loop keeps alternating between its work
\* and its sleep.
C13_LoopsRunForever ==
    /\ []<>(loop.pc = "signal" /\ loop.i = 1)
    /\ []<>(loop.pc \in {"sleep", "error_sleep"})
    /\ []<>(monitor.pc = "check")
    /\ []<>(monitor.pc \in {"sleep", "error_sleep"})

\* the monitor has caught the exception of its iteration and sleeps, and
\* the trading loop has finished a cycle in which a collaborator failed
C13_Witness ==
    /\ monitor.pc = "error_sleep"
    /\ loop.pc = "sleep"
    /\ loop.failed

\* C14: the process never exits while an execute_trade call is between its
\* admission check and its record step: at exit no call is in progress.
C14_NoExitDuringExecuteTrade ==
    loop.pc = "exited" => loop.exit_pc = "idle"

\* the trade of symbol s is Open and older than the maximum duration
OverAge(s) ==
    /\ s \in DOMAIN active_trades
    /\ now - active_trades[s].timestamp > max_trade_duration_hours

\* C15: with fair scheduling and executable signals arriving for every
\* configured symbol, an Open trade whose age exceeds
\* max_trade_duration_hours eventually leaves the open set.
C15_OverAgeTradeEventuallyLeaves ==
    \A s \in SYMBOLS : [](OverAge(s) => <>(s \notin DOMAIN active_trades))

\* C16: whatever assess_trade_risk is given, the assessment it returns has
\* executable equal to (risk_score < 0.6), also when the evaluation raised
\* inside and the handler returned the assessment as it stood.
C16_ExecutableIffBelowThreshold ==
    fn.applied
       => (fn.out.executable = FracLt(fn.out.risk_score, EXECUTABLE_BELOW))

\* C17: for a direction in [-1.2, 1.2], a volatility >= 0 and a trend
\* strength in [0, 1], the risk_score returned lies in [0, 1].
C17_RiskScoreInUnitInterval ==
    (fn.applied /\ fn.trade_signal.numeric)
       => /\ FracLe(Frac(0, 1), fn.out.risk_score)
          /\ FracLe(fn.out.risk_score, Frac(1, 1))

\* clamp(x, lo, hi) of the specification
clamp(x, lo, hi) == IF FracLt(x, lo) THEN lo ELSE IF FracLt(hi, x) THEN hi ELSE x

C19_SizeIsRiskBoundedByCapital ==
    (/\ fn.applied
     /\ fn.current_capital > 0
     /\ fn.entry_price > 0
     /\ fn.stop_loss_price # fn.entry_price)
       => /\ ~fn.out.raised
          /\ fn.out.caught = ""
          /\ fn.out.ret
               = FracMin(FracMul(FracMul(Frac(fn.current_capital, 1),
                                         fn.max_risk_per_trade),
                                 Frac(1, Abs(fn.entry_price
                                             - fn.stop_loss_price))),
                         Frac(fn.current_capital, fn.entry_price))
          /\ FracLe(Frac(0, 1), fn.out.ret)
          /\ FracLe(FracMul(fn.out.ret, Frac(fn.entry_price, 1)),
                    Frac(fn.current_capital, 1))
          /\ (/\ fn.entry_price = 100
              /\ fn.stop_loss_price = 98
              /\ fn.current_capital = 10000
              /\ fn.max_risk_per_trade = Frac(1, 100))
                => fn.out.ret = Frac(50, 1)

\* the example of the claim has been computed
C19_Witness ==
    /\ fn.applied
    /\ "entry_price" \in DOMAIN fn
    /\ fn.entry_price = 100
    /\ fn.stop_loss_price = 98
    /\ fn.current_capital = 10000
    /\ fn.max_risk_per_trade = Frac(1, 100)
    /\ fn.out.ret = Frac(50, 1)

\* C20: called with stop equal to entry, calculate_position_size fails with
\* a division-by-zero error that its caller sees; it returns no size.
C20_EqualStopRaises ==
    (fn.applied /\ fn.stop_loss_price = fn.entry_price) => fn.out.raised

\* the quantity of the call, in lowest terms
QuantityOfCall == Frac(call.quantity.num, call.quantity.den)

\* C21: whenever execute_trade hands an order to the venue, the quantity is
\* not negative and quantity * entry_price does not exceed the tracker's
\* current_capital, whatever balance and price the venue reported.
C21_OrderWithinCapital ==
    pc = "order"
       => /\ FracLe(Frac(0, 1), QuantityOfCall)
          /\ FracLe(FracMul(QuantityOfCall, Frac(call.price, 1)),
                    Frac(current_capital, 1))

\* C22: the tracker never holds a negative current_capital: an update whose
\* profit_loss would take the capital below 0 is refused, not applied.
C22_CapitalNeverNegative ==
    current_capital >= 0

\* the two averages the classification is stated on
AvgVolatility == mean(volatility_indicators(fn.features))

AvgTrend == mean(trend_indicators(fn.features))

\* the classification completed on numbers
Classified == fn.applied /\ ~fn.out.caught

\* C23: the four rules apply in priority order, first match wins: volatility
\* above 3 with the trend more than 10 away from 50 gives volatile with
\* confidence min(1, volatility / 5), also for a trend above 60 or below 40;
\* otherwise a trend above 60 gives bullish, otherwise a trend below 40
\* gives bearish, otherwise neutral with confidence 0.5.  Volatility 4 and
\* trend 65 give volatile with confidence 0.8.
C23_RegimeRulesInPriorityOrder ==
    Classified =>
       /\ IF /\ FracLt(Frac(3, 1), AvgVolatility)
             /\ FracLt(Frac(10, 1), trend_deviation(AvgTrend))
          THEN /\ fn.out.regime = "volatile"
               /\ fn.out.confidence
                     = FracMin(Frac(1, 1), FracMul(AvgVolatility, Frac(1, 5)))
          ELSE IF FracLt(Frac(60, 1), AvgTrend)
          THEN fn.out.regime = "bullish"
          ELSE IF FracLt(AvgTrend, Frac(40, 1))
          THEN fn.out.regime = "bearish"
          ELSE /\ fn.out.regime = "neutral"
               /\ fn.out.confidence = Frac(1, 2)
       /\ AvgTrend \in {Frac(60, 1), Frac(40, 1)} => fn.out.regime = "neutral"
       /\ (AvgVolatility = Frac(4, 1) /\ AvgTrend = Frac(65, 1))
             => (fn.out.regime = "volatile" /\ fn.out.confidence = Frac(4, 5))

\* the example of the claim: volatility 4 and trend 65, where both the
\* volatile and the bullish rule match
C23_Witness ==
    /\ fn.applied
    /\ "features" \in DOMAIN fn
    /\ ~fn.out.caught
    /\ AvgVolatility = Frac(4, 1)
    /\ AvgTrend = Frac(65, 1)
    /\ fn.out.regime = "volatile"
    /\ fn.out.confidence = Frac(4, 5)

\* the fetch of a timeframe the detection reads has failed
RetrievalFailed == RegimeTimeframes \ DOMAIN fn.features # {}

\* C24: when the retrieval of features fails during the detection, the
\* function returns neutral with confidence 0.5, volatility 0 and trend
\* strength 0.
C24_RetrievalFailureGivesNeutral ==
    (fn.applied /\ RetrievalFailed)
       => /\ fn.out.regime = "neutral"
          /\ fn.out.confidence = Frac(1, 2)
          /\ fn.out.volatility = Frac(0, 1)
          /\ fn.out.trend_strength = Frac(0, 1)

\* the raw signal of the class with the largest score, and the multiplier
\* of the regime in tenths, as the claim tabulates them
RawSignal ==
    LET c == predicted_class_of(fn.prediction)
    IN IF c = 0 THEN -1 ELSE IF c = 1 THEN 0 ELSE 1

RegimeMultiplier ==
    LET r == fn.market_regime.regime
    IN IF r = "bullish" THEN 12 ELSE IF r = "bearish" THEN 8
       ELSE IF r = "volatile" THEN 5 ELSE 10

\* C25: classes 0, 1, 2 map to the raw signals -1, 0, +1; the direction is
\* the raw signal times the multiplier of the regime (bullish 1.2, bearish
\* 0.8, volatile 0.5, neutral 1.0) and the confidence is the score times the
\* confidence of the regime; the direction lies in [-1.2, 1.2], and raw +1
\* under a bullish regime gives 1.2.
C25_SignalTimesRegimeMultiplier ==
    fn.applied =>
       /\ fn.out.signal_value = RawSignal * RegimeMultiplier
       /\ fn.out.confidence
             = FracMul(Frac(max_score(fn.prediction), 10),
                       fn.market_regime.confidence)
       /\ fn.out.signal_value >= -12
       /\ fn.out.signal_value <= 12
       /\ (RawSignal = 1 /\ fn.market_regime.regime = "bullish")
             => fn.out.signal_value = 12

\* the example of the claim: raw +1 under a bullish regime
C25_Witness ==
    /\ fn.applied
    /\ "prediction" \in DOMAIN fn
    /\ RawSignal = 1
    /\ fn.market_regime.regime = "bullish"
    /\ fn.out.signal_value = 12

\* C26: when the scoring function is unavailable or a step of the
\* generation fails (features, regime detection, scoring), the signal
\* returned is the default one, which is not executable, so that the trading
\* loop does not hand it to execute_trade.
C26_FailureGivesDefaultSignal ==
    (fn.applied /\ fn.out.failed)
       => /\ fn.out.signal = default_signal
          /\ ~fn.out.signal.executable

\* the indices of the history whose profit_loss satisfies a bound
Winners == {k \in DOMAIN trade_history : trade_history[k].profit_loss > 0}

Losers == {k \in DOMAIN trade_history : trade_history[k].profit_loss <= 0}

\* C27: after every update of the tracker, for any sequence of recorded
\* trades, risk_metrics is what the full history gives: total_trades its
\* length, winning_trades the number of trades with profit_loss > 0,
\* losing_trades the number with profit_loss <= 0 (winning + losing =
\* total), max_drawdown the smallest profit_loss of the history.
C27_MetricsRecomputedFromHistory ==
    recorded # {} =>
       /\ risk_metrics.total_trades = Len(trade_history)
       /\ risk_metrics.winning_trades = Cardinality(Winners)
       /\ risk_metrics.losing_trades = Cardinality(Losers)
       /\ risk_metrics.winning_trades + risk_metrics.losing_trades
             = risk_metrics.total_trades
       /\ \E k \in DOMAIN trade_history :
             risk_metrics.max_drawdown = trade_history[k].profit_loss
       /\ \A k \in DOMAIN trade_history :
             risk_metrics.max_drawdown <= trade_history[k].profit_loss

\* three trades recorded: a winner, a loser and one with profit_loss 0
C27_Witness ==
    /\ Cardinality(recorded) = 3
    /\ risk_metrics.winning_trades = 1
    /\ risk_metrics.losing_trades = 2
    /\ risk_metrics.max_drawdown = -200
    /\ \E k \in DOMAIN trade_history : trade_history[k].profit_loss = 0

\* active_trades as the call leaves it when it opens a trade: the record
\* returned under the symbol of the call, every other trade as before
TradesWithResult ==
    [s \in DOMAIN call.pre_trades \cup {call.symbol} |->
        IF s = call.symbol THEN call.result[1] ELSE call.pre_trades[s]]

\* C28: when record_trade is called, whether the database fails or not,
\* execute_trade returns the TradeRecord and leaves active_trades,
\* current_capital and trade_history in one and the same state: the record
\* stored under its symbol, appended to the history, its profit_loss added
\* to the capital.  The trading loop then takes the call's return and goes
\* on with the next symbol or the sleep between cycles.
C28_PersistenceFailureSwallowed ==
    (Returned /\ call.persist_calls > 0)
       => /\ call.outcome = "Opened"
          /\ call.result # <<>>
          /\ active_trades = TradesWithResult
          /\ trade_history = Append(call.pre_history, call.result[1])
          /\ current_capital = call.pre_capital + call.result[1].profit_loss
          /\ loop.pc = "execute"
          /\ ENABLED TradingLoopResumes

\* the database failed while the trade of the first symbol of a cycle was
\* recorded, and the call returned the record
C28_Witness ==
    /\ Returned
    /\ call.persist_failed
    /\ call.outcome = "Opened"
    /\ call.result # <<>>
    /\ loop.pc = "execute"
    /\ loop.i = 1

\* C29: when the process ends on a fatal error (the bot's construction
\* fails, or an exception is caught by run()), the final performance and
\* risk report has been logged and the exit status is not zero.
C29_FatalErrorLogsReportThenExitsNonZero ==
    process.pc = "exited" =>
        /\ process.performance_report_logged
        /\ process.risk_report_logged
        /\ process.exit_status # 0

\* the admission check of the current execute_trade call has answered
\* (trade_executor.py:89)
AdmissionAnswered == call.admission # ""

\* the quantity of the current call has been computed
\* (trade_executor.py:111-112): the call waits for, or is past, its order
QuantitySized == pc = "order" \/ call.order_calls > 0

\* C30: within one symbol's evaluation the stages run in the order Regime,
\* Aggregate, Risk, Size, Admit, Execute, Record: the executor is entered
\* only with the generated signal, the admission check has answered only
\* once the quantity is sized, every venue call of the executor comes after
\* a granted admission, and the trade is recorded only after the venue
\* acknowledged its order.
C30_StagesInOrder ==
    /\ call.symbol # "" => loop.pc = "execute"
    /\ AdmissionAnswered => QuantitySized
    /\ pc \in {"ticker", "balance", "order"} => call.admission = "True"
    /\ call.order_calls > 0 => call.admission = "True"
    /\ call.recorded => call.acked

\* C33: the side of every order execute_trade places is 'buy' exactly when
\* the direction of the signal is above 0 and 'sell' otherwise, and the
\* record of the trade carries that side; the neutral class gives the
\* direction 0 in every regime, which in a calm market is executable, so
\* such a signal places a sell order.
C33_SideFollowsSignal ==
    /\ call.order_calls > 0 =>
          call.side = (IF call.signal > 0 THEN "buy" ELSE "sell")
    /\ call.result # <<>> => call.result[1].side = call.side
    /\ \A regime \in {"bullish", "bearish", "volatile", "neutral"} :
          process_prediction(1, regime) = 0
    /\ assess_trade_risk([numeric |-> TRUE, tenths |-> 0],
                         [volatility |-> 5, trend_strength |-> 0],
                         MAX_RISK_PER_TRADE).executable

\* an executable signal of direction 0 had a sell order acknowledged and
\* recorded
C33_Witness ==
    /\ call.signal = 0
    /\ call.executable
    /\ call.acked
    /\ call.side = "sell"
    /\ call.result # <<>>
    /\ call.result[1].side = "sell"

CallInProgress == pc \in {"ticker", "balance", "order"}

\* the tracker's state: capital, history and metrics
TrackerState == <<current_capital, trade_history, risk_metrics>>

\* the step is the record step of the call in progress
\* (trade_executor.py:135-140)
RecordStep == pc = "order" /\ call'.recorded /\ call'.symbol = call.symbol

\* the tracker after the step is what update_capital_and_metrics makes of
\* the record of the call
WrittenByUpdate ==
    LET upd == update_capital_and_metrics(current_capital, trade_history,
                                          risk_metrics,
                                          active_trades'[call.symbol])
    IN TrackerState' =
          <<upd.current_capital, upd.trade_history, upd.risk_metrics>>

\* C31: at most one execute_trade is in progress: while a call is between
\* its admission check and its record step the trading loop is suspended on
\* that call for that symbol, no step but the call's own record step
\* changes active_trades or the tracker, and the tracker is written only by
\* update_capital_and_metrics in that record step.
C31_SharedStateSerialized ==
    /\ [](CallInProgress =>
             /\ loop.pc = "execute"
             /\ SymbolOrder[loop.i] = call.symbol)
    /\ [][/\ (CallInProgress /\ ~RecordStep) =>
                /\ active_trades' = active_trades
                /\ TrackerState' = TrackerState
          /\ TrackerState' # TrackerState => (RecordStep /\ WrittenByUpdate)
          /\ active_trades' # active_trades =>
                (RecordStep \/ (pc = "idle" /\ call'.expired))]_vars

\* a second trade was admitted while one was Open, and the call for it
\* recorded its trade
C31_Witness ==
    /\ call.recorded
    /\ call.outcome = "Opened"
    /\ Len(call.pre_history) = 1
    /\ Len(trade_history) = 2
    /\ loop.pc = "execute"

\* the step is an iteration or a wake-up of the health monitor
MonitorStep == monitor' # monitor

\* every trade of active_trades is a record of the tracker's history
ActiveTradesInHistory ==
    \A s \in DOMAIN active_trades :
        \E i \in DOMAIN trade_history : trade_history[i] = active_trades[s]

\* C34: the health monitor only reads: each of its steps, at whatever point
\* of the trading loop it is interleaved, leaves current_capital,
\* trade_history, risk_metrics and active_trades unchanged; and as the
\* record step of execute_trade has no await, no state the monitor can run
\* in has a trade in active_trades that is missing from trade_history.
C34_MonitorReadOnly ==
    /\ [][MonitorStep =>
             UNCHANGED <<current_capital, trade_history, risk_metrics,
                         active_trades>>]_vars
    /\ [](monitor.pc = "check" => ActiveTradesInHistory)

\* the monitor is about to run while a trade is Open and another call of
\* execute_trade is suspended at its order
C34_Witness ==
    /\ monitor.pc = "check"
    /\ pc = "order"
    /\ DOMAIN active_trades # {}
    /\ call.symbol \notin DOMAIN active_trades

=============================================================================
